---- MODULE Spec2Model ----
(***************************************************************************)
(* Residue views of prody/atomic/residue.py over one shared AtomGroup.     *)
(*                                                                         *)
(* The AtomGroup's per-atom columns are the state; a Residue is a value    *)
(* (index sequence, coordinate-set override, selection fragment) that the  *)
(* program holds in `views`.  Python's None is the empty set and a present *)
(* value x is {x}, so that optional values of any type can be compared.    *)
(***************************************************************************)
EXTENDS Integers, Sequences, FiniteSets, TLC

VARIABLES
    resnums,     \* ag._getResnums():    [atom index -> residue number]
    resnames,    \* ag._getResnames():   None or Some([atom index -> name])
    icodes,      \* ag._getIcodes():     None or Some([atom index -> icode])
    chids,       \* ag._getChids():      None or Some([atom index -> chid])
    resindices,  \* ag._getResindices(): [atom index -> residue index]
    names,       \* atom names:          [atom index -> name]
    ag_acsi,     \* the AtomGroup's active coordinate set index
    hvChains,    \* chain identifiers the HierView resolves to a Chain
    views,       \* the Residue instances the program holds
    last         \* the last call made: its receiver, argument and result

vars == <<resnums, resnames, icodes, chids, resindices, names, ag_acsi,
          hvChains, views, last>>

storeVars == <<resnums, resnames, icodes, chids, resindices, names, ag_acsi,
               hvChains>>

----------------------------------------------------------------------------
(* Bounds of the model. *)

NumAtomsCols == 2    \* atoms of the store, column read/write specification
MaxViews == 2        \* Residue instances held, column read/write specification
NumAtomsNav == 3     \* atoms of the store, navigation specification
NumAtomsAtom == 2    \* atoms of the store, atom lookup specification
NumAtomsSel == 2     \* atoms of the store, selection string specification

ResnumValues == {7, 42}
ResnameValues == {"ALA", "GLY"}
IcodeValues == {"", "B"}
ChidValues == {"A", "B"}
NameValues == {"CA", "CB"}
SelstrValues == {"", "protein"}
ACSIValues == {0, 1}

----------------------------------------------------------------------------
(* Python values. *)

None == {}

Some(x) == {x}

Get(o) == CHOOSE x \in o : TRUE

\* o or '' for an optional string o
OrEmpty(o) == IF o = None \/ o = Some("") THEN "" ELSE Get(o)

\* bool(o) for an optional string o
Truthy(o) == o # None /\ o # Some("")

Range(s) == {s[k] : k \in 1..Len(s)}

Atoms == DOMAIN resnums

Min(S) == CHOOSE x \in S : \A y \in S : x <= y

RECURSIVE SortedSeq(_)
SortedSeq(S) == IF S = {} THEN <<>> ELSE <<Min(S)>> \o SortedSeq(S \ {Min(S)})

\* the non-empty sequences of distinct elements of S
InjSeqs(S) ==
    {s \in UNION {[1..n -> S] : n \in 1..Cardinality(S)} :
        \A i, j \in 1..Len(s) : i # j => s[i] # s[j]}

\* the non-empty ascending sequences of distinct elements of S
AscSeqs(S) == {SortedSeq(T) : T \in (SUBSET S) \ {{}}}

----------------------------------------------------------------------------
(* AtomSubset: the base class of Residue. *)

\* AtomSubset.__init__(ag, indices, acsi, selstr=...)
AtomSubset(indices, acsi, selstr) ==
    [indices |-> indices, acsi |-> acsi, selstr |-> selstr]

\* AtomPointer.getACSIndex
getACSIndex(self) == IF self.acsi = None THEN ag_acsi ELSE Get(self.acsi)

\* AtomSubset.getNames: the name column at the held indices, in held order
getNames(self) == [k \in 1..Len(self.indices) |-> names[self.indices[k]]]

\* a column with value written at every held index
Broadcast(col, self, value) ==
    [a \in DOMAIN col |-> IF a \in Range(self.indices) THEN value ELSE col[a]]

\* AtomSubset.setResnums / setResnames / setIcodes
setResnums(self, number) == Broadcast(resnums, self, number)

setResnames(self, name) == Some(Broadcast(Get(resnames), self, name))

setIcodes(self, icode) == Some(Broadcast(Get(icodes), self, icode))

----------------------------------------------------------------------------
(* Residue: attribute shortcuts. *)

getResnum(self) == resnums[self.indices[1]]

setResnum_FirstOnly(self, number) ==
    [resnums EXCEPT ![self.indices[1]] = number]

setResnum(self, number) == setResnums(self, number)

getResname_LastIndex(self) ==
    LET data == resnames
    IN  IF data # None
        THEN Some(Get(data)[self.indices[Len(self.indices)]])
        ELSE None

getResname(self) ==
    LET data == resnames
    IN  IF data # None THEN Some(Get(data)[self.indices[1]]) ELSE None

setResname(self, name) == setResnames(self, name)

getIcode(self) ==
    LET data == icodes
    IN  IF data # None THEN Some(Get(data)[self.indices[1]]) ELSE None

setIcode_FirstOnly(self, icode) ==
    Some([Get(icodes) EXCEPT ![self.indices[1]] = icode])

setIcode(self, icode) == setIcodes(self, icode)

getResindex(self) == resindices[self.indices[1]]

getChid(self) ==
    LET data == chids
    IN  IF data # None THEN Some(Get(data)[self.indices[1]]) ELSE None

\* the atoms a Residue points to have the same residue number and
\* insertion code
Uniform(self) ==
    /\ \A a, b \in Range(self.indices) : resnums[a] = resnums[b]
    /\ icodes # None =>
           \A a, b \in Range(self.indices) : Get(icodes)[a] = Get(icodes)[b]

----------------------------------------------------------------------------
(* Actions: construction and the column setters. *)

\* Residue(ag, indices, hv, acsi, selstr=selstr)
Construct(indices, acsi, selstr) ==
    LET self == AtomSubset(indices, acsi, selstr)
    IN  /\ Cardinality(views) < MaxViews
        /\ self \notin views
        /\ Uniform(self)
        /\ views' = views \cup {self}
        /\ last' = [op |-> "Residue", self |-> self]
        /\ UNCHANGED storeVars

SetResnum(self, number) ==
    /\ resnums' = setResnum(self, number)
    /\ last' = [op |-> "setResnum", self |-> self, arg |-> number]
    /\ UNCHANGED <<resnames, icodes, chids, resindices, names, ag_acsi,
                   hvChains, views>>

\* the store holds the column; without it the write fails in the store
SetResname(self, name) ==
    /\ resnames # None
    /\ resnames' = setResname(self, name)
    /\ last' = [op |-> "setResname", self |-> self, arg |-> name]
    /\ UNCHANGED <<resnums, icodes, chids, resindices, names, ag_acsi,
                   hvChains, views>>

SetIcode(self, icode) ==
    /\ icodes # None
    /\ icodes' = setIcode(self, icode)
    /\ last' = [op |-> "setIcode", self |-> self, arg |-> icode]
    /\ UNCHANGED <<resnums, resnames, chids, resindices, names, ag_acsi,
                   hvChains, views>>

----------------------------------------------------------------------------
(* Column read/write specification: several Residue views of one store.    *)

InitCols ==
    LET A == 0..(NumAtomsCols - 1)
    IN  /\ resnums \in [A -> ResnumValues]
        /\ resnames \in {None} \cup {Some(f) : f \in [A -> ResnameValues]}
        /\ icodes \in {None} \cup {Some(f) : f \in [A -> IcodeValues]}
        /\ chids = None
        /\ resindices = [a \in A |-> 0]
        /\ names = [a \in A |-> "CA"]
        /\ ag_acsi = 0
        /\ hvChains = {}
        /\ views = {}
        /\ last = [op |-> "init"]

NextCols ==
    \/ \E s \in AscSeqs(Atoms) : Construct(s, None, None)
    \/ \E r \in views : \E v \in ResnumValues : SetResnum(r, v)
    \/ \E r \in views : \E v \in ResnameValues : SetResname(r, v)
    \/ \E r \in views : \E v \in IcodeValues : SetIcode(r, v)

SpecCols == InitCols /\ [][NextCols]_vars

Held(self) == Range(self.indices)

Setters == {"setResnum", "setResname", "setIcode"}

\* the value the column written by the last setter shows through view r
ReadBack(r) ==
    CASE last.op = "setResnum" -> Some(getResnum(r))
      [] last.op = "setResname" -> getResname(r)
      [] last.op = "setIcode" -> getIcode(r)

\* C1: immediately after R.setResnum(v), R.getResnum() is v and the
\* residue-number column holds v at every atom index held by R.
C1_BroadcastWrite ==
    last.op = "setResnum" =>
        /\ getResnum(last.self) = last.arg
        /\ \A a \in Held(last.self) : resnums[a] = last.arg

C1_Witness ==
    /\ last.op = "setResnum"
    /\ Len(last.self.indices) >= 2
    /\ \A a \in Held(last.self) : resnums[a] = last.arg

\* C2 as stated: after a setter through R1 with value v, every view R2
\* whose index set overlaps R1's reads v from that column.
C2_AliasingAnyOverlap ==
    last.op \in Setters =>
        \A r2 \in views :
            Held(r2) \cap Held(last.self) # {} => ReadBack(r2) = Some(last.arg)

\* C2 amended: after a setter through R1 with value v, every view R2
\* whose first held index is held by R1 reads v from that column.
C2_AliasingFirstIndex ==
    last.op \in Setters =>
        \A r2 \in views :
            r2.indices[1] \in Held(last.self) => ReadBack(r2) = Some(last.arg)

C2_Witness ==
    /\ last.op \in Setters
    /\ \E r2 \in views :
        /\ Held(r2) # Held(last.self)
        /\ r2.indices[1] \in Held(last.self)
        /\ ReadBack(r2) = Some(last.arg)

\* the index sets of the views held are pairwise identical or disjoint
PairwiseDisjoint ==
    \A r1, r2 \in views :
        Held(r1) = Held(r2) \/ Held(r1) \cap Held(r2) = {}

----------------------------------------------------------------------------
(* HierView: the residues of the store in residue-index order.             *)

\* the number of residues the HierView holds
NumResidues == Cardinality({resindices[a] : a \in Atoms})

\* the Residue the HierView built for residue index i
HvResidue(i) ==
    AtomSubset(SortedSeq({a \in Atoms : resindices[a] = i}), None, None)

\* HierView._getResidue(index): total, nothing when out of range
hv_getResidue(index) ==
    IF index \in 0..(NumResidues - 1) THEN Some(HvResidue(index)) ELSE None

\* HierView.getChain(chid)
hv_getChain(chid) == IF chid \in hvChains THEN Some([chid |-> chid]) ELSE None

\* Chain.getSelstr()
Chain_getSelstr(chain) == "chain " \o chain.chid

----------------------------------------------------------------------------
(* Residue: hierarchy navigation.  Each call returns its result and the    *)
(* indices it asked the HierView for.                                      *)

getPrev_NoGuard(self) ==
    LET nextIndex == getResindex(self) - 1
    IN  [ret |-> hv_getResidue(nextIndex), queries |-> <<nextIndex>>]

getPrev(self) ==
    LET nextIndex == getResindex(self) - 1
    IN  IF nextIndex < 0
        THEN [ret |-> None, queries |-> <<>>]
        ELSE [ret |-> hv_getResidue(nextIndex), queries |-> <<nextIndex>>]

getNext_SameIndex(self) ==
    LET index == getResindex(self)
    IN  [ret |-> hv_getResidue(index), queries |-> <<index>>]

getNext(self) ==
    LET index == getResindex(self) + 1
    IN  [ret |-> hv_getResidue(index), queries |-> <<index>>]

getChain(self) ==
    LET chid == getChid(self)
    IN  IF chid # None THEN hv_getChain(Get(chid)) ELSE None

GetPrev(self) ==
    LET call == getPrev(self)
    IN  /\ views' = views \cup call.ret
        /\ last' = [op |-> "getPrev", self |-> self, ret |-> call.ret,
                    queries |-> call.queries]
        /\ UNCHANGED storeVars

GetNext(self) ==
    LET call == getNext(self)
    IN  /\ views' = views \cup call.ret
        /\ last' = [op |-> "getNext", self |-> self, ret |-> call.ret,
                    queries |-> call.queries]
        /\ UNCHANGED storeVars

----------------------------------------------------------------------------
(* Navigation specification: the residues of one hierarchy.                *)

\* residue indices as the hierarchy build assigns them: zero-based,
\* contiguous, numbered in order of first appearance in the store
Hierarchies(A) ==
    {f \in [A -> A] :
        \A a \in A :
            \/ f[a] = 0
            \/ \E b \in A : b < a /\ f[b] = f[a] - 1}

InitNav ==
    LET A == 0..(NumAtomsNav - 1)
    IN  /\ resindices \in Hierarchies(A)
        /\ resnums \in {f \in [A -> ResnumValues] :
                \A a, b \in A : resindices[a] = resindices[b] => f[a] = f[b]}
        /\ resnames = None
        /\ icodes = None
        /\ chids = None
        /\ names = [a \in A |-> "CA"]
        /\ ag_acsi = 0
        /\ hvChains = {}
        /\ views \in {{HvResidue(i)} : i \in 0..(NumResidues - 1)}
        /\ last = [op |-> "init"]

NextNav ==
    \/ \E r \in views : GetPrev(r)
    \/ \E r \in views : GetNext(r)

SpecNav == InitNav /\ [][NextNav]_vars

\* the residue is neither the first nor the last of the hierarchy
NonBoundary(r) == 0 < getResindex(r) /\ getResindex(r) < NumResidues - 1

\* C3: for every residue R that is neither first nor last,
\* R.getNext().getPrev() and R.getPrev().getNext() each return a residue
\* whose residue index is R's.
C3_NavigationSymmetry ==
    \A r \in views :
        NonBoundary(r) =>
            /\ getNext(r).ret # None
            /\ getPrev(Get(getNext(r).ret)).ret # None
            /\ getResindex(Get(getPrev(Get(getNext(r).ret)).ret))
                   = getResindex(r)
            /\ getPrev(r).ret # None
            /\ getNext(Get(getPrev(r).ret)).ret # None
            /\ getResindex(Get(getNext(Get(getPrev(r).ret)).ret))
                   = getResindex(r)

C3_Witness ==
    /\ last.op = "getPrev"
    /\ last.ret # None
    /\ \E r \in views :
        /\ NonBoundary(r)
        /\ getNext(r).ret = Some(last.self)
        /\ getResindex(Get(last.ret)) = getResindex(r)

\* C4 as stated: on the residue with the highest residue index, getNext()
\* returns nothing and never asks the HierView for an index at or beyond
\* the residue count.
C4_GetNextBoundChecked ==
    (last.op = "getNext" /\ getResindex(last.self) = NumResidues - 1) =>
        /\ last.ret = None
        /\ \A k \in 1..Len(last.queries) : last.queries[k] < NumResidues

\* C5: getPrev() on a residue of residue index 0 returns nothing without
\* asking the HierView; on a residue of residue index i > 0 it returns the
\* HierView's residue i-1; the HierView is never asked a negative index.
C5_GetPrevLowerBound ==
    last.op = "getPrev" =>
        LET i == getResindex(last.self)
        IN  /\ i = 0 => last.ret = None /\ last.queries = <<>>
            /\ i > 0 =>
                /\ last.queries = <<i - 1>>
                /\ last.ret # None
                /\ Held(Get(last.ret)) = {a \in Atoms : resindices[a] = i - 1}
            /\ \A k \in 1..Len(last.queries) : last.queries[k] >= 0

C5_Witness ==
    /\ last.op = "getPrev"
    /\ getResindex(last.self) = 0
    /\ last.ret = None
    /\ last.queries = <<>>
    /\ Cardinality(views) >= 2

----------------------------------------------------------------------------
(* Residue: atom lookup by name.                                           *)

\* Atom(ag, index, acsi)
Atom(index, acsi) == [index |-> index, acsi |-> acsi]

\* isinstance(name, str)
IsStr(name) == name.type = "str"

\* (array == value).nonzero()[0]: the positions holding value, ascending
Nonzero(array, value) == SortedSeq({k \in DOMAIN array : array[k] = value})

getAtom_FirstHeld(self, name) ==
    LET acsi == getACSIndex(self)
    IN  IF IsStr(name)
        THEN LET nz == Nonzero(getNames(self), name.val)
             IN  IF Len(nz) > 0
                 THEN Some(Atom(self.indices[1], acsi))
                 ELSE None
        ELSE None

getAtom(self, name) ==
    LET acsi == getACSIndex(self)
    IN  IF IsStr(name)
        THEN LET nz == Nonzero(getNames(self), name.val)
             IN  IF Len(nz) > 0
                 THEN Some(Atom(self.indices[nz[1]], acsi))
                 ELSE None
        ELSE None

GetAtom(self, name) ==
    /\ last' = [op |-> "getAtom", self |-> self, arg |-> name,
                ret |-> getAtom(self, name)]
    /\ UNCHANGED <<storeVars, views>>

----------------------------------------------------------------------------
(* Atom lookup specification: one Residue, held indices in any order.      *)

NameInputs ==
    {[type |-> "str", val |-> n] : n \in NameValues \cup {"N"}}
        \cup {[type |-> "int", val |-> 0]}

InitAtom ==
    LET A == 0..(NumAtomsAtom - 1)
    IN  /\ names \in [A -> NameValues]
        /\ ag_acsi \in ACSIValues
        /\ resnums = [a \in A |-> 7]
        /\ resnames = None
        /\ icodes = None
        /\ chids = None
        /\ resindices = [a \in A |-> 0]
        /\ hvChains = {}
        /\ views \in {{AtomSubset(s, acsi, None)} :
                s \in InjSeqs(A),
                acsi \in {None} \cup {Some(i) : i \in ACSIValues}}
        /\ last = [op |-> "init"]

NextAtom == \E r \in views : \E name \in NameInputs : GetAtom(r, name)

SpecAtom == InitAtom /\ [][NextAtom]_vars

\* the held atom indices whose atom name is the name asked for
Matching(self, name) ==
    IF IsStr(name)
    THEN {a \in Held(self) : names[a] = name.val}
    ELSE {}

\* C6 as stated: when two or more held atoms share the name, getAtom(name)
\* returns the atom of the smallest matching atom index, whatever the order
\* of the held index sequence.
C6_SmallestIndex ==
    (last.op = "getAtom" /\ Cardinality(Matching(last.self, last.arg)) >= 2) =>
        /\ last.ret # None
        /\ Get(last.ret).index = Min(Matching(last.self, last.arg))

\* C7, its result: getAtom(name) returns nothing exactly when no held atom
\* has that name; an atom returned is held by the residue, has the name
\* asked for and carries the residue's active coordinate set index.
C7_Result ==
    last.op = "getAtom" =>
        /\ last.ret = None <=> Matching(last.self, last.arg) = {}
        /\ last.ret # None =>
            /\ Get(last.ret).index \in Held(last.self)
            /\ names[Get(last.ret).index] = last.arg.val
            /\ Get(last.ret).acsi =
                   (IF last.self.acsi = None THEN ag_acsi
                    ELSE Get(last.self.acsi))

\* C7: getAtom(name) returns nothing exactly when no held atom has that
\* name and leaves the store unchanged; an atom returned is held by the
\* residue, has the name asked for and carries the residue's active
\* coordinate set index.
C7_GetAtomSound ==
    /\ []C7_Result
    /\ [][last'.op = "getAtom" => UNCHANGED storeVars]_vars

C7_WitnessFound ==
    /\ last.op = "getAtom"
    /\ last.ret # None
    /\ last.self.acsi # None
    /\ Get(last.ret).acsi # ag_acsi
    /\ Get(last.ret).index # last.self.indices[1]

----------------------------------------------------------------------------
(* Residue: selection string.                                              *)

\* str(number)
Str(number) == ToString(number)

\* a replacement field of a format string
IsField(piece) == piece \in {"{0}", "{1}", "{2}"}

FieldIndex(piece) ==
    CASE piece = "{0}" -> 0
      [] piece = "{1}" -> 1
      [] piece = "{2}" -> 2

\* str.format: the format string as the sequence of its literal pieces and
\* replacement fields, each field {k} replaced by str() of argument k
RECURSIVE Format(_, _)
Format(template, args) ==
    IF template = <<>>
    THEN ""
    ELSE (IF IsField(Head(template))
          THEN args[FieldIndex(Head(template)) + 1]
          ELSE Head(template)) \o Format(Tail(template), args)

getSelstr_IcodeNone(self) ==
    LET icode == IF getIcode(self) = None THEN "None" ELSE Get(getIcode(self))
        chain == getChain(self)
    IN  IF chain = None
        THEN IF Truthy(self.selstr)
             THEN Format(<<"resnum ", "{0}", "{1}", " and (", "{1}", ")">>,
                         <<Str(getResnum(self)), icode, Get(self.selstr)>>)
             ELSE Format(<<"resnum ", "{0}", "{1}">>,
                         <<Str(getResnum(self)), icode>>)
        ELSE Format(<<"resnum ", "{0}", "{1}", " and (", "{2}", ")">>,
                    <<Str(getResnum(self)), icode,
                      Chain_getSelstr(Get(chain))>>)

getSelstr(self) ==
    LET icode == OrEmpty(getIcode(self))
        chain == getChain(self)
    IN  IF chain = None
        THEN IF Truthy(self.selstr)
             THEN Format(<<"resnum ", "{0}", "{1}", " and (", "{1}", ")">>,
                         <<Str(getResnum(self)), icode, Get(self.selstr)>>)
             ELSE Format(<<"resnum ", "{0}", "{1}">>,
                         <<Str(getResnum(self)), icode>>)
        ELSE Format(<<"resnum ", "{0}", "{1}", " and (", "{2}", ")">>,
                    <<Str(getResnum(self)), icode,
                      Chain_getSelstr(Get(chain))>>)

\* `after` is the call that preceded this one
GetSelstr(self) ==
    /\ last' = [op |-> "getSelstr", self |-> self, ret |-> getSelstr(self),
                after |-> IF last.op \in {"setResnum", "setIcode"}
                          THEN [op |-> last.op, arg |-> last.arg]
                          ELSE [op |-> last.op]]
    /\ UNCHANGED <<storeVars, views>>

----------------------------------------------------------------------------
(* Selection string specification: one Residue, its number and insertion   *)
(* code rewritten between calls of getSelstr.                              *)

InitSel ==
    LET A == 0..(NumAtomsSel - 1)
    IN  /\ resnums \in [A -> ResnumValues]
        /\ icodes \in {None} \cup {Some(f) : f \in [A -> IcodeValues]}
        /\ chids \in {None} \cup {Some(f) : f \in [A -> ChidValues]}
        /\ hvChains \in SUBSET ChidValues
        /\ resnames = None
        /\ resindices = [a \in A |-> 0]
        /\ names = [a \in A |-> "CA"]
        /\ ag_acsi = 0
        /\ views \in {{AtomSubset(s, None, sel)} :
                s \in AscSeqs(A),
                sel \in {None} \cup {Some(f) : f \in SelstrValues}}
        /\ \A r \in views : Uniform(r)
        /\ last = [op |-> "init"]

NextSel ==
    \/ \E r \in views : \E v \in ResnumValues : SetResnum(r, v)
    \/ \E r \in views : \E v \in IcodeValues : SetIcode(r, v)
    \/ \E r \in views : GetSelstr(r)

SpecSel == InitSel /\ [][NextSel]_vars

\* the residue number of the first held atom, as text
NumText(self) == ToString(resnums[self.indices[1]])

\* the insertion code of the first held atom, empty when absent
IcodeText(self) ==
    IF icodes = None THEN "" ELSE Get(icodes)[self.indices[1]]

\* the residue has a chain identifier that the HierView resolves
HasChain(self) ==
    chids # None /\ Get(chids)[self.indices[1]] \in hvChains

\* C8 as stated: for a residue with no chain that carries a non-empty
\* parent fragment F, getSelstr() returns "resnum {num}{icode} and ({F})".
C8_ParentFragment ==
    (last.op = "getSelstr" /\ ~HasChain(last.self)
        /\ Truthy(last.self.selstr)) =>
        last.ret = "resnum " \o NumText(last.self) \o IcodeText(last.self)
                       \o " and (" \o Get(last.self.selstr) \o ")"

\* C9: getSelstr() uses the current residue number and insertion code
\* (empty when absent): "resnum {num}{icode} and ({chain.getSelstr()})"
\* when the chain resolves, "resnum {num}{icode}" when it does not and no
\* parent fragment is carried; after a setter the value set is the one used.
C9_SelstrCurrent ==
    last.op = "getSelstr" =>
        /\ HasChain(last.self) =>
               last.ret = "resnum " \o NumText(last.self)
                   \o IcodeText(last.self) \o " and (chain "
                   \o Get(chids)[last.self.indices[1]] \o ")"
        /\ (~HasChain(last.self) /\ ~Truthy(last.self.selstr)) =>
               last.ret = "resnum " \o NumText(last.self)
                   \o IcodeText(last.self)
        /\ last.after.op = "setResnum" =>
               NumText(last.self) = ToString(last.after.arg)
        /\ last.after.op = "setIcode" =>
               IcodeText(last.self) = last.after.arg

C9_WitnessChain ==
    /\ last.op = "getSelstr"
    /\ last.after.op = "setResnum"
    /\ last.after.arg = 42
    /\ icodes = None
    /\ last.ret = "resnum 42 and (chain A)"

====
